---- MODULE Spec2Model ----
(***************************************************************************)
(* A model of tools/dvdrip.py: the per-title pipeline of __main__ (dump    *)
(* with mplayer, parse the dump log, re-multiplex with ffmpeg) and the     *)
(* retry loop of re_mux.  External tools (mplayer, ffmpeg) are the         *)
(* environment: their exit statuses, their diagnostic text and the moment  *)
(* at which they terminate are chosen nondeterministically.                *)
(*                                                                         *)
(* Strings that the code transforms (titles, episode ids, file names) are  *)
(* sequences of one-character strings.  The stderr text of ffmpeg and the  *)
(* stdout log of mplayer are sequences of lines; a line is a record naming *)
(* which of the code's regular expressions it matches.                     *)
(***************************************************************************)
EXTENDS Integers, Sequences, FiniteSets, TLC

\* ------------------------------------------------------------------ bounds

\* Largest number of titles given with --title (titles delimited with |).
MaxTitles == 2

\* re_mux loops "while True"; the model stops spawning ffmpeg after this many
\* invocations for one title so that the state space is finite.
MaxAttempts == 6

\* ----------------------------------------------------------- environment

\* Stream layouts a title's dump may have; position p holds the kind of
\* ffmpeg's input stream 0:(p-1).
DumpLayouts ==
  { <<"video", "audio", "subtitle">>,
    <<"video", "subtitle", "audio">> }

\* (title, episode id) pairs the user may pass for one program.
ArgChoices ==
  { [title |-> <<"a">>,      episode |-> <<>>],
    [title |-> <<"a", "?">>, episode |-> <<>>] }

\* Exit statuses of ffmpeg as Popen.wait() reports them: 0, an error status,
\* or the negated number of the signal that killed it.
ExitStatuses == {0, 1, -9}

\* Exit statuses of mplayer.
DumpExitStatuses == {0, 1}

\* Stream indices of a dump with the given layout.
Indices(kinds) == 0 .. (Len(kinds) - 1)

\* ------------------------------------------------------- lang_iso_code

lang_iso_code ==
  ("ar" :> "ara") @@ ("cy" :> "cym") @@ ("de" :> "ger") @@ ("en" :> "eng") @@
  ("es" :> "spa") @@ ("fa" :> "fas") @@ ("fr" :> "fra") @@ ("ga" :> "gle") @@
  ("he" :> "heb") @@ ("ja" :> "jpn") @@ ("ko" :> "kor") @@ ("pt" :> "por") @@
  ("ru" :> "rus") @@ ("zh" :> "chi") @@ ("unknown" :> "eng")

\* ------------------------------------------------------- parse_metadata

\* A line of mplayer's log: shape is "audio" (matches audio_re), "subtitle"
\* (matches subtitle_re) or "other"; lang is the captured language group.
LogLine(shape, lang) == [shape |-> shape, lang |-> lang]

\* Stream(t, fmt, lang): the format string plays no part in any decision.
Stream(t, lang) == [type |-> t, language |-> lang]

\* The result is [ok, streams]; ok = FALSE is the KeyError that the lookup
\* lang_iso_code[...] raises for a code outside the table: nothing is returned.
RECURSIVE parse_metadata_from_Prepend(_, _)
parse_metadata_from_Prepend(log, acc) ==
  IF log = <<>> THEN [ok |-> TRUE, streams |-> acc]
  ELSE LET line == Head(log) IN
       IF line.shape \in {"audio", "subtitle"}
       THEN IF line.lang \in DOMAIN lang_iso_code
            THEN parse_metadata_from_Prepend(Tail(log),
                   <<Stream(line.shape, lang_iso_code[line.lang])>> \o acc)
            ELSE [ok |-> FALSE, streams |-> <<>>]
       ELSE parse_metadata_from_Prepend(Tail(log), acc)

RECURSIVE parse_metadata_from_Default(_, _)
parse_metadata_from_Default(log, acc) ==
  IF log = <<>> THEN [ok |-> TRUE, streams |-> acc]
  ELSE LET line == Head(log) IN
       IF line.shape \in {"audio", "subtitle"}
       THEN parse_metadata_from_Default(Tail(log),
              Append(acc, Stream(line.shape,
                IF line.lang \in DOMAIN lang_iso_code
                THEN lang_iso_code[line.lang] ELSE "eng")))
       ELSE parse_metadata_from_Default(Tail(log), acc)

RECURSIVE parse_metadata_from(_, _)
parse_metadata_from(log, acc) ==
  IF log = <<>> THEN [ok |-> TRUE, streams |-> acc]
  ELSE LET line == Head(log) IN
       IF line.shape \in {"audio", "subtitle"}
       THEN IF line.lang \in DOMAIN lang_iso_code
            THEN parse_metadata_from(Tail(log),
                   Append(acc, Stream(line.shape, lang_iso_code[line.lang])))
            ELSE [ok |-> FALSE, streams |-> <<>>]
       ELSE parse_metadata_from(Tail(log), acc)

parse_metadata(log) == parse_metadata_from(log, <<>>)

\* --------------------------------------------------- stream_language_tags

\* One directive models the argument pair '-metadata:s:a:<ord>' (or s:s)
\* and 'language=<lang>'.
Tag(kind, ord, lang) == [kind |-> kind, ord |-> ord, lang |-> lang]

RECURSIVE stream_language_tags_from_OneCounter(_, _, _, _)
stream_language_tags_from_OneCounter(stream_defs, astream, sstream, args) ==
  IF stream_defs = <<>> THEN args
  ELSE LET s == Head(stream_defs) IN
       stream_language_tags_from_OneCounter(Tail(stream_defs), astream + 1,
         sstream, Append(args, Tag(s.type, astream, s.language)))

RECURSIVE stream_language_tags_from(_, _, _, _)
stream_language_tags_from(stream_defs, astream, sstream, args) ==
  IF stream_defs = <<>> THEN args
  ELSE LET s == Head(stream_defs) IN
       IF s.type = "audio"
       THEN stream_language_tags_from(Tail(stream_defs), astream + 1, sstream,
              Append(args, Tag("audio", astream, s.language)))
       ELSE IF s.type = "subtitle"
       THEN stream_language_tags_from(Tail(stream_defs), astream, sstream + 1,
              Append(args, Tag("subtitle", sstream, s.language)))
       ELSE <<Tag("AssertionError", 0, "")>>

stream_language_tags(stream_defs) ==
  stream_language_tags_from(stream_defs, 0, 0, <<>>)

\* ----------------------------------------------------------------- filesafe

\* badchar = r'?*"\'!<>()': in a raw string the backslash before the quote
\* stays in the string, so the backslash is one of the deleted characters.
StripChars == <<"?", "*", "\"", "\\", "'", "!", "<", ">", "(", ")">>
DashChars == <<":", "/", "\\", "#">>

\* s.replace(c, '')
RemoveChar(s, c) == SelectSeq(s, LAMBDA x : x # c)

\* s.replace(c, '-')
DashChar(s, c) == [j \in 1..Len(s) |-> IF s[j] = c THEN "-" ELSE s[j]]

RECURSIVE RemoveAll(_, _)
RemoveAll(s, chars) ==
  IF chars = <<>> THEN s ELSE RemoveAll(RemoveChar(s, Head(chars)), Tail(chars))

RECURSIVE DashAll(_, _)
DashAll(s, chars) ==
  IF chars = <<>> THEN s ELSE DashAll(DashChar(s, Head(chars)), Tail(chars))

\* The inputs of this model are ASCII, on which encode('ascii', 'replace')
\* changes nothing.
filesafe(s) ==
  IF s = <<>> THEN <<>> ELSE DashAll(RemoveAll(s, StripChars), DashChars)

Mp4Ext == <<".", "m", "p", "4">>

\* The metadata dict of __main__ has 'episode_id' only for a non-empty
\* episode string; re_mux picks the file name on that key.
OutFileName(title, episode) ==
  IF episode # <<>>
  THEN filesafe(episode \o <<" ">> \o title \o Mp4Ext)
  ELSE filesafe(title \o Mp4Ext)

\* ------------------------------------------------------------ -map arguments

\* One '-map' argument pair.  sel is "all" ('0'), "v" ('0:v'), "a" ('0:a')
\* or "idx" ('0:<n>'); n is -1 unless sel = "idx".
MapAll == [sel |-> "all", n |-> -1]
MapVideo == [sel |-> "v", n |-> -1]
MapAudio == [sel |-> "a", n |-> -1]
MapIndex(n) == [sel |-> "idx", n |-> n]

\* map_args = ['-map', '0'], the value re_mux starts from.
InitialMap == <<MapAll>>

\* The input streams that one selector picks out of a dump.
SelectorStreams(m, kinds) ==
  CASE m.sel = "all" -> Indices(kinds)
    [] m.sel = "v"   -> { x \in Indices(kinds) : kinds[x + 1] = "video" }
    [] m.sel = "a"   -> { x \in Indices(kinds) : kinds[x + 1] = "audio" }
    [] OTHER         -> { x \in Indices(kinds) : x = m.n }

\* The StreamMap: the input streams a list of -map arguments selects.
Selected(map, kinds) ==
  UNION { SelectorStreams(map[j], kinds) : j \in 1..Len(map) }

\* ------------------------------------------------------------ ffmpeg stderr

\* Lines of ffmpeg's stderr, by what the code's patterns see in them:
\*   "stream" n : contains 'Stream #0:<n>'
\*   "output"   : starts with 'Output #0'
\*   "dts"      : contains 'non monotonically increasing dts'
\*   "codec" n  : contains 'Could not find codec parameters for stream <n>'
StreamLine(n) == [k |-> "stream", n |-> n]
OutputLine == [k |-> "output", n |-> -1]
DtsLine == [k |-> "dts", n |-> -1]
CodecLine(n) == [k |-> "codec", n |-> n]

\* err_re.search(stderr) for 'non monotonically increasing dts'.
HasDts(err) == \E j \in 1..Len(err) : err[j].k = "dts"

\* err_re.search(stderr) for 'Could not find codec parameters for stream (\d+)'.
HasCodec(err) == \E j \in 1..Len(err) : err[j].k = "codec"

\* m.group(1) of the first match in the text.
BadStream(err) ==
  LET first == CHOOSE j \in 1..Len(err) :
                 /\ err[j].k = "codec"
                 /\ \A h \in 1..(j - 1) : err[h].k # "codec"
  IN err[first].n

\* The loop over stderr.split('\n') that rebuilds map_args: it stops at the
\* first line that starts with 'Output #0' and maps every listed stream
\* except bad_stream.
RECURSIVE ExcludeStreamMapFrom_NoBreak(_, _, _)
ExcludeStreamMapFrom_NoBreak(lines, bad_stream, acc) ==
  IF lines = <<>> THEN acc
  ELSE LET line == Head(lines) IN
       IF line.k = "stream" /\ line.n # bad_stream
       THEN ExcludeStreamMapFrom_NoBreak(Tail(lines), bad_stream,
                                         Append(acc, MapIndex(line.n)))
       ELSE ExcludeStreamMapFrom_NoBreak(Tail(lines), bad_stream, acc)

RECURSIVE ExcludeStreamMapFrom(_, _, _)
ExcludeStreamMapFrom(lines, bad_stream, acc) ==
  IF lines = <<>> THEN acc
  ELSE LET line == Head(lines) IN
       IF line.k = "output" THEN acc
       ELSE IF line.k = "stream" /\ line.n # bad_stream
       THEN ExcludeStreamMapFrom(Tail(lines), bad_stream,
                                 Append(acc, MapIndex(line.n)))
       ELSE ExcludeStreamMapFrom(Tail(lines), bad_stream, acc)

ExcludeStreamMap(err) == ExcludeStreamMapFrom(err, BadStream(err), <<>>)

\* map_args = ['-map', '0:v', '-map', '0:a']
DropSubtitleMap_KeepAll == <<MapAll>>

DropSubtitleMap == <<MapVideo, MapAudio>>

\* os.unlink(tmpfile) runs only under "if status == 0".
DumpAfterAttempt_SignalDeletes(st, exists) == IF st <= 0 THEN FALSE ELSE exists

DumpAfterAttempt(st, exists) == IF st = 0 THEN FALSE ELSE exists

\* The files the unrecoverable branch writes.
DiagFiles_NoCommand == {"ffmpeg.stdout", "ffmpeg.stderr"}

DiagFiles == {"ffmpeg.stdout", "ffmpeg.stderr", "ffmpeg.sh"}

\* What ffmpeg may print for a dump: the input listing (every stream, or every
\* stream but the last), then the fault lines, then nothing or the start of
\* the output section with a line naming the last stream in it.
FullListing(kinds) == [j \in 1..Len(kinds) |-> StreamLine(j - 1)]

ListingChoices(kinds) ==
  { FullListing(kinds), SubSeq(FullListing(kinds), 1, Len(kinds) - 1) }

FaultChoices(kinds) ==
  {<<>>, <<DtsLine>>, <<CodecLine(1), DtsLine>>} \cup
  { <<CodecLine(x)>> : x \in Indices(kinds) }

TailChoices(kinds) ==
  { <<>>, <<OutputLine, StreamLine(Len(kinds) - 1)>> }

StderrChoices(kinds) ==
  { l \o f \o t : l \in ListingChoices(kinds), f \in FaultChoices(kinds),
                  t \in TailChoices(kinds) }

\* What mplayer prints for a dump: one line per audio or subtitle stream, in
\* stream order, among lines of other shapes.
LangOf(kind) == IF kind = "audio" THEN "en" ELSE "fr"

RECURSIVE DumpLog(_)
DumpLog(kinds) ==
  IF kinds = <<>> THEN <<>>
  ELSE IF Head(kinds) = "video"
       THEN <<LogLine("other", "")>> \o DumpLog(Tail(kinds))
       ELSE <<LogLine(Head(kinds), LangOf(Head(kinds)))>> \o DumpLog(Tail(kinds))

\* ... or a log that names a language outside the table.
LogChoices(kinds) ==
  { DumpLog(kinds), <<LogLine("audio", "xx")>> }

\* --------------------------------------------------------------------- state

VARIABLES
  titles,      \* ARGS.title.split('|'), each a character sequence
  episodes,    \* ARGS.episodes.split('|')
  pc,          \* where __main__ is: "loop", "rip", "remux", "mux_wait",
               \* "done" (exit status 0) or "died" (exit status 1)
  i,           \* 1-based position of the for loop in tracks
  dumpAlive,   \* titles whose mplayer child has not terminated yet
  dumpStdout,  \* stdout pipe of the current mplayer child: "none", "open", "closed"
  dumpStatus,  \* <<>> or <<exit status of the current title's mplayer child>>
  dumpExists,  \* whether the scratch file tmp exists
  dumpKinds,   \* stream layout of the dump in tmp
  streams,     \* the global streams: descriptors returned by rip
  map_args,    \* re_mux local
  outfile,     \* re_mux local
  cmd,         \* re_mux local: the command line last built
  muxAlive,    \* whether an ffmpeg child is running
  status,      \* re_mux local: child.wait() of the last attempt
  stderr,      \* re_mux local: captured stderr of the last attempt
  attempts,    \* number of ffmpeg children started for the current title
  succeeded,   \* whether an attempt for the current title returned 0
  outfiles,    \* names of the container files ffmpeg has written
  diagfiles    \* names of the files written by the unrecoverable branch

\* read_toc and the part of __main__ between it and the for loop.
VARIABLES
  toc,         \* the lines lsdvd prints
  want,        \* len(titles), the n passed to read_toc
  tracks,      \* __main__'s tracks
  new_tracks,  \* what the user typed at the prompt, as a list of numbers
  mainpc       \* "read_toc", "prompt", "loop" (the for loop is entered),
               \* "died", or "idle" when this part is not running

\* One call of parse_metadata, of stream_language_tags, of the output file
\* naming of re_mux.
VARIABLES
  meta_log,    \* parse_metadata's argument
  parsed,      \* <<>> before the call, then <<its result>>
  tag_defs,    \* stream_language_tags' argument
  tag_args,    \* <<>> before the call, then <<its result>>
  bag,         \* re_mux's metadata_bag: [title, episode]
  safe_name    \* <<>> before, then <<the outfile re_mux computes>>

\* flac-combine.py: one outstream object.
VARIABLES
  channels,         \* outstream.channels
  bytes_per_sample, \* outstream.bytes_per_sample
  total_samples,    \* outstream.total_samples
  track_offsets,    \* outstream.track_offsets
  outpipe,          \* "None" or "open"
  written,          \* bytes handed to outpipe.writeframes so far
  raised,           \* "" or the exception the last call raised
  last_call,        \* name of the last method called
  last_padding,     \* samples of padding the last pad_out_cd_frame added
  calls             \* number of method calls made

pipeVars ==
  << titles, episodes, pc, i, dumpAlive, dumpStdout, dumpStatus, dumpExists,
     dumpKinds, streams, map_args, outfile, cmd, muxAlive, status, stderr,
     attempts, succeeded, outfiles, diagfiles >>

tocVars == << toc, want, tracks, new_tracks, mainpc >>
fnVars == << meta_log, parsed, tag_defs, tag_args, bag, safe_name >>
VARIABLES
  tracklist,   \* flac-combine's tracklist, one record per name
  infile,      \* position of the for loop in tracklist
  mpc,         \* where flac-combine's main is
  remaining    \* frames of the open input file not read yet

mainVars == << tracklist, infile, mpc, remaining >>

flacVars ==
  << channels, bytes_per_sample, total_samples, track_offsets, outpipe,
     written, raised, last_call, last_padding, calls, mainVars >>

\* Everything that is not the per-title pipeline.
aux == << tocVars, fnVars, flacVars >>

vars == << pipeVars, aux >>

\* The values a part of the state keeps while another part is being run.
TocIdle ==
  /\ toc = <<>>
  /\ want = 0
  /\ tracks = <<>>
  /\ new_tracks = <<>>
  /\ mainpc = "idle"

FnIdle ==
  /\ meta_log = <<>>
  /\ parsed = <<>>
  /\ tag_defs = <<>>
  /\ tag_args = <<>>
  /\ bag = [title |-> <<>>, episode |-> <<>>]
  /\ safe_name = <<>>

MainIdle ==
  /\ tracklist = <<>>
  /\ infile = 1
  /\ mpc = "idle"
  /\ remaining = 0

FlacIdle ==
  /\ MainIdle
  /\ channels = 0
  /\ bytes_per_sample = 0
  /\ total_samples = 0
  /\ track_offsets = <<>>
  /\ outpipe = "None"
  /\ written = 0
  /\ raised = ""
  /\ last_call = ""
  /\ last_padding = 0
  /\ calls = 0

args == << titles, episodes >>
dumpVars == << dumpAlive, dumpStdout, dumpStatus >>
fsVars == << outfiles, diagfiles >>

NoCmd == [map |-> <<>>, tags |-> <<>>, outfile |-> <<>>]

PipeIdle ==
  /\ titles = <<>>
  /\ episodes = <<>>
  /\ pc = "idle"
  /\ i = 1
  /\ dumpAlive = {}
  /\ dumpStdout = "none"
  /\ dumpStatus = <<>>
  /\ dumpExists = FALSE
  /\ dumpKinds = <<>>
  /\ streams = <<>>
  /\ map_args = <<>>
  /\ outfile = <<>>
  /\ cmd = NoCmd
  /\ muxAlive = FALSE
  /\ status = 0
  /\ stderr = <<>>
  /\ attempts = 0
  /\ succeeded = FALSE
  /\ outfiles = {}
  /\ diagfiles = {}

\* __main__ up to the for loop: the title and episode lists have the same
\* length, at least one title.
Init ==
  /\ \E n \in 1..MaxTitles : \E a \in [1..n -> ArgChoices] :
       /\ titles = [j \in 1..n |-> a[j].title]
       /\ episodes = [j \in 1..n |-> a[j].episode]
  /\ pc = "loop"
  /\ i = 1
  /\ dumpAlive = {}
  /\ dumpStdout = "none"
  /\ dumpStatus = <<>>
  /\ dumpExists = FALSE
  /\ dumpKinds = <<>>
  /\ streams = <<>>
  /\ map_args = <<>>
  /\ outfile = <<>>
  /\ cmd = NoCmd
  /\ muxAlive = FALSE
  /\ status = 0
  /\ stderr = <<>>
  /\ attempts = 0
  /\ succeeded = FALSE
  /\ outfiles = {}
  /\ diagfiles = {}
  /\ TocIdle
  /\ FnIdle
  /\ FlacIdle

\* -------------------------------------------------------------------- rip

\* The for loop takes the next track and rip starts mplayer with Popen.
\* mplayer creates the dump file; what is on the disc decides its layout.
RipSpawn ==
  /\ pc = "loop"
  /\ i <= Len(titles)
  /\ \E kinds \in DumpLayouts : dumpKinds' = kinds
  /\ dumpAlive' = dumpAlive \cup {i}
  /\ dumpStdout' = "open"
  /\ dumpStatus' = <<>>
  /\ dumpExists' = TRUE
  /\ attempts' = 0
  /\ succeeded' = FALSE
  /\ pc' = "rip"
  /\ UNCHANGED << aux, args, i, streams, map_args, outfile, cmd, muxAlive, status,
                  stderr, fsVars >>

\* Environment: the running mplayer child closes its stdout without having
\* terminated (the parent then reads end of file).
DumpCloseStdout ==
  /\ dumpStdout = "open"
  /\ dumpStdout' = "closed"
  /\ UNCHANGED << aux, args, pc, i, dumpAlive, dumpStatus, dumpExists, dumpKinds,
                  streams, map_args, outfile, cmd, muxAlive, status, stderr,
                  attempts, succeeded, fsVars >>

\* Environment: an mplayer child terminates, with any exit status.  Nothing in
\* the program waits for it or reads the status.
DumpExit ==
  \E t \in dumpAlive : \E st \in DumpExitStatuses :
    /\ dumpAlive' = dumpAlive \ {t}
    /\ dumpStdout' = IF t = i /\ dumpStdout = "open" THEN "closed" ELSE dumpStdout
    /\ dumpStatus' = IF t = i THEN <<st>> ELSE dumpStatus
    /\ UNCHANGED << aux, args, pc, i, dumpExists, dumpKinds, streams, map_args,
                    outfile, cmd, muxAlive, status, stderr, attempts,
                    succeeded, fsVars >>

\* parse_metadata has read the log to end of file without a KeyError; rip
\* returns, __main__ builds the metadata and re_mux runs up to its loop.
RipParsed ==
  /\ pc = "rip"
  /\ dumpStdout = "closed"
  /\ \E log \in LogChoices(dumpKinds) :
       /\ parse_metadata(log).ok
       /\ streams' = parse_metadata(log).streams
  /\ map_args' = InitialMap
  /\ outfile' = OutFileName(titles[i], episodes[i])
  /\ cmd' = NoCmd
  /\ status' = 0
  /\ stderr' = <<>>
  /\ pc' = "remux"
  /\ UNCHANGED << aux, args, i, dumpVars, dumpExists, dumpKinds, muxAlive, attempts,
                  succeeded, fsVars >>

\* parse_metadata raises KeyError on a language code outside the table; nothing
\* catches it and the interpreter exits with status 1.
RipKeyError ==
  /\ pc = "rip"
  /\ dumpStdout = "closed"
  /\ \E log \in LogChoices(dumpKinds) : ~parse_metadata(log).ok
  /\ pc' = "died"
  /\ UNCHANGED << aux, args, i, dumpVars, dumpExists, dumpKinds, streams, map_args,
                  outfile, cmd, muxAlive, status, stderr, attempts, succeeded,
                  fsVars >>

\* ----------------------------------------------------------------- re_mux

\* The top of the while loop: build cmd and start ffmpeg with Popen.
MuxSpawn ==
  /\ pc = "remux"
  /\ attempts < MaxAttempts
  /\ cmd' = [map |-> map_args, tags |-> stream_language_tags(streams),
             outfile |-> outfile]
  /\ muxAlive' = TRUE
  /\ attempts' = attempts + 1
  /\ pc' = "mux_wait"
  /\ UNCHANGED << aux, args, i, dumpVars, dumpExists, dumpKinds, streams, map_args,
                  outfile, status, stderr, succeeded, fsVars >>

\* communicate() and wait() return status 0: unlink the dump, break, return to
\* __main__ (the locals of re_mux are gone), whose for loop moves on.  ffmpeg
\* has written the output file.
MuxSuccess ==
  /\ pc = "mux_wait"
  /\ dumpExists
  /\ muxAlive' = FALSE
  /\ status' = 0
  /\ stderr' = <<>>
  /\ succeeded' = TRUE
  /\ dumpExists' = DumpAfterAttempt(0, dumpExists)
  /\ outfiles' = outfiles \cup {cmd.outfile}
  /\ map_args' = <<>>
  /\ outfile' = <<>>
  /\ cmd' = NoCmd
  /\ i' = i + 1
  /\ pc' = "loop"
  /\ UNCHANGED << aux, args, dumpVars, dumpKinds, streams, attempts, diagfiles >>

\* Non-zero status and stderr holds the timestamp signature: continue with the
\* subtitle-free map.
MuxRetryNoSubtitles ==
  /\ pc = "mux_wait"
  /\ \E st \in ExitStatuses \ {0} : \E err \in StderrChoices(dumpKinds) :
       /\ HasDts(err)
       /\ status' = st
       /\ stderr' = err
       /\ dumpExists' = DumpAfterAttempt(st, dumpExists)
  /\ muxAlive' = FALSE
  /\ map_args' = DropSubtitleMap
  /\ pc' = "remux"
  /\ UNCHANGED << aux, args, i, dumpVars, dumpKinds, streams, outfile, cmd,
                  attempts, succeeded, fsVars >>

MuxRetryExcludeStream_CodecFirst ==
  /\ pc = "mux_wait"
  /\ \E st \in ExitStatuses \ {0} : \E err \in StderrChoices(dumpKinds) :
       /\ HasCodec(err)
       /\ status' = st
       /\ stderr' = err
       /\ dumpExists' = DumpAfterAttempt(st, dumpExists)
       /\ map_args' = ExcludeStreamMap(err)
  /\ muxAlive' = FALSE
  /\ pc' = "remux"
  /\ UNCHANGED << aux, args, i, dumpVars, dumpKinds, streams, outfile, cmd,
                  attempts, succeeded, fsVars >>

\* Non-zero status, no timestamp signature, and stderr holds the codec
\* parameters signature: continue with the map rebuilt from the listing.
MuxRetryExcludeStream ==
  /\ pc = "mux_wait"
  /\ \E st \in ExitStatuses \ {0} : \E err \in StderrChoices(dumpKinds) :
       /\ ~HasDts(err)
       /\ HasCodec(err)
       /\ status' = st
       /\ stderr' = err
       /\ dumpExists' = DumpAfterAttempt(st, dumpExists)
       /\ map_args' = ExcludeStreamMap(err)
  /\ muxAlive' = FALSE
  /\ pc' = "remux"
  /\ UNCHANGED << aux, args, i, dumpVars, dumpKinds, streams, outfile, cmd,
                  attempts, succeeded, fsVars >>

MuxUnrecoverable_Skips ==
  /\ pc = "mux_wait"
  /\ \E st \in ExitStatuses \ {0} : \E err \in StderrChoices(dumpKinds) :
       /\ ~HasDts(err)
       /\ ~HasCodec(err)
       /\ status' = st
       /\ stderr' = err
       /\ dumpExists' = DumpAfterAttempt(st, dumpExists)
  /\ muxAlive' = FALSE
  /\ diagfiles' = diagfiles \cup DiagFiles
  /\ i' = i + 1
  /\ pc' = "loop"
  /\ UNCHANGED << aux, args, dumpVars, dumpKinds, streams, map_args, outfile,
                  cmd, attempts, succeeded, outfiles >>

\* Non-zero status and neither signature: write the diagnostic files and die.
MuxUnrecoverable ==
  /\ pc = "mux_wait"
  /\ \E st \in ExitStatuses \ {0} : \E err \in StderrChoices(dumpKinds) :
       /\ ~HasDts(err)
       /\ ~HasCodec(err)
       /\ status' = st
       /\ stderr' = err
       /\ dumpExists' = DumpAfterAttempt(st, dumpExists)
  /\ muxAlive' = FALSE
  /\ diagfiles' = diagfiles \cup DiagFiles
  /\ pc' = "died"
  /\ UNCHANGED << aux, args, i, dumpVars, dumpKinds, streams, map_args, outfile,
                  cmd, attempts, succeeded, outfiles >>

\* The for loop is exhausted: 'See You Space Cowboy', exit status 0.
Finish ==
  /\ pc = "loop"
  /\ i > Len(titles)
  /\ pc' = "done"
  /\ UNCHANGED << aux, args, i, dumpVars, dumpExists, dumpKinds, streams, map_args,
                  outfile, cmd, muxAlive, status, stderr, attempts, succeeded,
                  fsVars >>

Next ==
  \/ RipSpawn
  \/ DumpCloseStdout
  \/ DumpExit
  \/ RipParsed
  \/ RipKeyError
  \/ MuxSpawn
  \/ MuxSuccess
  \/ MuxRetryNoSubtitles
  \/ MuxRetryExcludeStream
  \/ MuxUnrecoverable
  \/ Finish

Spec == Init /\ [][Next]_vars

\* ------------------------------------------------------------------ claims

InReMux == pc \in {"remux", "mux_wait"}

Range(s) == { s[j] : j \in 1..Len(s) }

SubtitleStreams(kinds) == { x \in Indices(kinds) : kinds[x + 1] = "subtitle" }

\* The last attempt of the current title failed (status and stderr are its).
LastAttemptFailed == attempts >= 1 /\ status # 0

\* C1: re_mux makes at most 5 multiplexer invocations for one title.
C1_RetryLoopBounded == attempts <= 5

\* C2: the StreamMap starts as every stream of the dump, the set selected for
\* a retry is a subset of the set the previous attempt selected, and no -map
\* argument names an index absent from the dump.
C2_StreamMapOnlyNarrows ==
  /\ (pc = "mux_wait" /\ attempts = 1) =>
       Selected(cmd.map, dumpKinds) = Indices(dumpKinds)
  /\ (pc = "remux" /\ attempts >= 1) =>
       Selected(map_args, dumpKinds) \subseteq Selected(cmd.map, dumpKinds)
  /\ InReMux =>
       \A j \in 1..Len(map_args) :
         map_args[j].sel = "idx" => map_args[j].n \in Indices(dumpKinds)

\* The descriptor of audio or subtitle stream x of the dump: descriptors come
\* in stream order.
DescriptorOf(x) ==
  streams[Cardinality({ y \in 0..x : dumpKinds[y + 1] # "video" })]

\* The tags the claim asks for: one per selected audio or subtitle stream,
\* addressed by its position among the selected streams of its kind.
ExpectedTags(sel) ==
  { Tag(dumpKinds[x + 1],
        Cardinality({ y \in sel : y < x /\ dumpKinds[y + 1] = dumpKinds[x + 1] }),
        DescriptorOf(x).language) :
      x \in { z \in sel : dumpKinds[z + 1] # "video" } }

\* C3: every command re_mux builds carries exactly one language tag per
\* selected stream, addressed by its kind-relative position among the selected
\* streams, and none for a stream that is not selected.
C3_TagsMatchSelection ==
  pc = "mux_wait" =>
    /\ Range(cmd.tags) = ExpectedTags(Selected(cmd.map, dumpKinds))
    /\ Len(cmd.tags) = Cardinality(ExpectedTags(Selected(cmd.map, dumpKinds)))

\* C4: after an attempt that exited non-zero with the timestamp signature in
\* its stderr, re_mux is retrying and the retry selects no subtitle stream.
C4_NoSubtitlesAfterTimestampFault ==
  (LastAttemptFailed /\ HasDts(stderr)) =>
    /\ InReMux
    /\ Selected(map_args, dumpKinds) \cap SubtitleStreams(dumpKinds) = {}
    /\ pc = "mux_wait" =>
         Selected(cmd.map, dumpKinds) \cap SubtitleStreams(dumpKinds) = {}

C4_Witness ==
  /\ pc = "mux_wait"
  /\ attempts = 2
  /\ status # 0
  /\ HasDts(stderr)
  /\ SubtitleStreams(dumpKinds) # {}
  /\ Selected(cmd.map, dumpKinds) # {}

\* Positions of the lines before the first line that starts the output section.
InputSection(err) ==
  { j \in 1..Len(err) : \A h \in 1..j : err[h].k # "output" }

ListedBeforeOutput(err) ==
  { err[j].n : j \in { h \in InputSection(err) : err[h].k = "stream" } }

ListedFromOutputOn(err) ==
  { err[j].n : j \in { h \in (1..Len(err)) \ InputSection(err) :
                         err[h].k = "stream" } }

\* C5: after an attempt that exited non-zero with the codec-parameters
\* signature for stream N and without the timestamp signature, the retry's
\* StreamMap excludes N, contains every other index listed before the output
\* section, and no index listed only in or after it.
C5_ExcludeStreamFromListing ==
  (LastAttemptFailed /\ ~HasDts(stderr) /\ HasCodec(stderr)) =>
    /\ InReMux
    /\ LET sel == Selected(map_args, dumpKinds) IN
         /\ BadStream(stderr) \notin sel
         /\ ListedBeforeOutput(stderr) \ {BadStream(stderr)} \subseteq sel
         /\ (ListedFromOutputOn(stderr) \ ListedBeforeOutput(stderr)) \cap sel = {}
    /\ pc = "mux_wait" => cmd.map = map_args

C5_Witness ==
  /\ pc = "mux_wait"
  /\ status # 0
  /\ ~HasDts(stderr)
  /\ HasCodec(stderr)
  /\ BadStream(stderr) \in ListedBeforeOutput(stderr)
  /\ ListedFromOutputOn(stderr) \ ListedBeforeOutput(stderr) # {}
  /\ Selected(cmd.map, dumpKinds) # {}

\* C6: after an attempt that exited non-zero with neither signature, exactly
\* the three diagnostic files are written, the dump is still there, no ffmpeg
\* child runs, and the process has ended with non-zero status.
C6_UnrecoverableFailure ==
  (LastAttemptFailed /\ ~HasDts(stderr) /\ ~HasCodec(stderr)) =>
    /\ pc = "died"
    /\ diagfiles = {"ffmpeg.stdout", "ffmpeg.stderr", "ffmpeg.sh"}
    /\ Cardinality(diagfiles) = 3
    /\ dumpExists
    /\ ~muxAlive

C6_Witness ==
  /\ pc = "died"
  /\ attempts >= 2
  /\ status # 0
  /\ ~HasDts(stderr)
  /\ ~HasCodec(stderr)
  /\ Cardinality(diagfiles) = 3

\* C15: after a failed attempt whose stderr holds both signatures the retry
\* runs with the drop-all-subtitles map and not with the exclude-stream map;
\* the exclude-stream map is applied only when the timestamp signature is
\* absent, and the run dies on the attempt only when both are absent.
C15_FaultPriority ==
  LastAttemptFailed =>
    /\ HasDts(stderr) =>
         (pc \in {"remux", "mux_wait"} /\ map_args = <<MapVideo, MapAudio>>)
    /\ (~HasDts(stderr) /\ HasCodec(stderr)) =>
         (pc \in {"remux", "mux_wait"} /\ map_args = ExcludeStreamMap(stderr))
    /\ pc = "died" => (~HasDts(stderr) /\ ~HasCodec(stderr))

C15_Witness ==
  /\ LastAttemptFailed
  /\ HasDts(stderr)
  /\ HasCodec(stderr)
  /\ pc = "remux"
  /\ map_args = <<MapVideo, MapAudio>>
  /\ map_args # ExcludeStreamMap(stderr)

\* C16: once the diagnostic files of an unrecoverable remux exist, the run has
\* died: it is not at a later title's dump or remux, no child runs against the
\* scratch path, the dump is still there, and the run is not at its normal
\* completion.
C16_UnrecoverableStopsRun ==
  diagfiles # {} =>
    /\ pc = "died"
    /\ pc \notin {"loop", "rip", "remux", "mux_wait", "done"}
    /\ ~muxAlive
    /\ dumpExists
    /\ ~succeeded

C16_Witness ==
  /\ diagfiles # {}
  /\ pc = "died"
  /\ i < Len(titles)
  /\ dumpExists

\* C7: once a title's dump has been started, the dump is gone exactly when an
\* attempt for that title returned 0; after that zero exit control has left
\* re_mux and no ffmpeg child is running.
C7_DumpDeletedIffZeroExit ==
  (pc # "loop" \/ i > 1) =>
    /\ (~dumpExists) <=> succeeded
    /\ succeeded => (pc \in {"loop", "done"} /\ ~muxAlive)

C7_Witness ==
  /\ succeeded
  /\ ~dumpExists
  /\ attempts >= 2
  /\ pc = "loop"

\* C8: if the dump tool exited non-zero for the current title, no multiplexer
\* invocation is made for that title and the run does not complete normally.
C8_DumpFailureIsFatal ==
  (dumpStatus # <<>> /\ dumpStatus[1] # 0) =>
    /\ attempts = 0
    /\ pc # "done"

\* C9: at most one external child process is alive at any time.
C9_OneChildAtATime ==
  Cardinality(dumpAlive) + (IF muxAlive THEN 1 ELSE 0) <= 1

\* C10: a run in which every title's remux succeeded ends with one distinct
\* output file per title.
C10_OneOutputPerTitle ==
  pc = "done" => Cardinality(outfiles) = Len(titles)

\* =================================================================== read_toc

\* Longest table of contents, in lines.
MaxTocLen == 4

\* The text captured by ([0-9:\.]+), as a sequence of digits; the code keeps
\* it as a string.
DurChoices == { <<5>>, <<1, 0>>, <<4, 5>>, <<9, 0>> }

\* A line of lsdvd's output: k is "title" when it matches
\* 'Title: (\d+), Length: ([0-9:\.]+)', with idx = int(group 1), len = group 2.
TitleLine(idx, len) == [k |-> "title", idx |-> idx, len |-> len]
OtherLine == [k |-> "other", idx |-> 0, len |-> <<>>]

\* lsdvd numbers the titles in the order it prints them: the line at position j
\* is title j with one of the durations, or (written <<>> here) a line of
\* another shape.
TocChoices ==
  UNION { [1..n -> {<<>>} \cup DurChoices] : n \in 0..MaxTocLen }

TocLines(t) ==
  [j \in 1..Len(t) |-> IF t[j] = <<>> THEN OtherLine ELSE TitleLine(j, t[j])]

\* Python's < on two strings of digits: character by character, a proper
\* prefix being the smaller.
RECURSIVE StrLess(_, _)
StrLess(a, b) ==
  IF b = <<>> THEN FALSE
  ELSE IF a = <<>> THEN TRUE
  ELSE IF Head(a) # Head(b) THEN Head(a) < Head(b)
  ELSE StrLess(Tail(a), Tail(b))

\* The number a string of digits writes.
RECURSIVE DigitsValue(_)
DigitsValue(d) ==
  IF d = <<>> THEN 0 ELSE DigitsValue(SubSeq(d, 1, Len(d) - 1)) * 10 + d[Len(d)]

\* The comparison of the first sort: key=lambda x: x[0], the captured string.
LenKeyLess(x, y) == StrLess(x.len, y.len)

\* list.sort is stable, also with reverse=True: x goes before the first
\* element whose key is smaller.
RECURSIVE InsertDescByLen(_, _)
InsertDescByLen(sorted, x) ==
  IF sorted = <<>> THEN <<x>>
  ELSE IF LenKeyLess(Head(sorted), x) THEN <<x>> \o sorted
  ELSE <<Head(sorted)>> \o InsertDescByLen(Tail(sorted), x)

RECURSIVE SortDescByLen(_, _)
SortDescByLen(todo, sorted) ==
  IF todo = <<>> THEN sorted
  ELSE SortDescByLen(Tail(todo), InsertDescByLen(sorted, Head(todo)))

RECURSIVE InsertAscByIdx(_, _)
InsertAscByIdx(sorted, x) ==
  IF sorted = <<>> THEN <<x>>
  ELSE IF x.idx < Head(sorted).idx THEN <<x>> \o sorted
  ELSE <<Head(sorted)>> \o InsertAscByIdx(Tail(sorted), x)

RECURSIVE SortAscByIdx(_, _)
SortAscByIdx(todo, sorted) ==
  IF todo = <<>> THEN sorted
  ELSE SortAscByIdx(Tail(todo), InsertAscByIdx(sorted, Head(todo)))

\* title_len[:n]
Truncate(s, n) == SubSeq(s, 1, IF n < Len(s) THEN n ELSE Len(s))

\* title_len after the loop over lsdvd's output.
TitleLen(lines) == SelectSeq(lines, LAMBDA l : l.k = "title")

read_toc(n, lines) ==
  LET byLen == SortDescByLen(TitleLen(lines), <<>>)
      kept == SortAscByIdx(Truncate(byLen, n), <<>>)
  IN [j \in 1..Len(kept) |-> kept[j].idx]

\* What the user may type at the prompt, split and converted with int.
TypedChoices == { <<1>>, <<1, 2>>, <<2, 1>>, <<1, 2, 3>> }

\* "if len(tracks) != len(titles): die(...)"
CountMatches_AtMost(tr, n) == Len(tr) <= n

CountMatches(tr, n) == Len(tr) = n

InitToc ==
  /\ PipeIdle
  /\ FnIdle
  /\ FlacIdle
  /\ \E t \in TocChoices : toc = TocLines(t)
  /\ want \in 1..MaxTitles
  /\ tracks = <<>>
  /\ new_tracks = <<>>
  /\ mainpc = "read_toc"

\* tracks = read_toc(len(titles)), then the two messages of the prompt.
ReadToc ==
  /\ mainpc = "read_toc"
  /\ tracks' = read_toc(want, toc)
  /\ mainpc' = "prompt"
  /\ UNCHANGED << pipeVars, fnVars, flacVars, toc, want, new_tracks >>

\* The user presses Enter: tracks stays what read_toc returned.
PromptEnter ==
  /\ mainpc = "prompt"
  /\ mainpc' = IF CountMatches(tracks, want) THEN "loop" ELSE "died"
  /\ UNCHANGED << pipeVars, fnVars, flacVars, toc, want, tracks, new_tracks >>

\* The user types track numbers: they replace tracks.
PromptTracks ==
  /\ mainpc = "prompt"
  /\ \E typed \in TypedChoices :
       /\ new_tracks' = typed
       /\ tracks' = typed
       /\ mainpc' = IF CountMatches(typed, want) THEN "loop" ELSE "died"
  /\ UNCHANGED << pipeVars, fnVars, flacVars, toc, want >>

\* Ctrl-C at the prompt: die('Bye Bye').
PromptInterrupt ==
  /\ mainpc = "prompt"
  /\ mainpc' = "died"
  /\ UNCHANGED << pipeVars, fnVars, flacVars, toc, want, tracks, new_tracks >>

NextToc ==
  \/ ReadToc
  \/ PromptEnter
  \/ PromptTracks
  \/ PromptInterrupt

SpecToc == InitToc /\ [][NextToc]_vars

\* The title lines of the table of contents.
Entries == TitleLen(toc)

\* e is among the want longest entries, an earlier line winning a tie.
AmongLongest(e) ==
  Cardinality({ f \in Range(Entries) :
                  \/ DigitsValue(f.len) > DigitsValue(e.len)
                  \/ DigitsValue(f.len) = DigitsValue(e.len) /\ f.idx < e.idx })
    < want

\* C11: for a table of contents with at least N title lines read_toc returns
\* exactly N indices, strictly increasing, each the index of a title line that
\* is among the N of longest duration (an earlier line winning a tie).
C11_LongestTitlesInDiscOrder ==
  (mainpc = "prompt" /\ Len(Entries) >= want) =>
    /\ Len(tracks) = want
    /\ \A j \in 1..(Len(tracks) - 1) : tracks[j] < tracks[j + 1]
    /\ \A j \in 1..Len(tracks) :
         \E e \in Range(Entries) : e.idx = tracks[j] /\ AmongLongest(e)

MaxLogLen == 3

\* Lines of a log: audio and subtitle lines with codes of the table, with the
\* sentinel, with a code outside the table, and a line of another shape.
LogLineChoices ==
  { LogLine("audio", "en"), LogLine("audio", "unknown"),
    LogLine("subtitle", "fr"), LogLine("subtitle", "xx"),
    LogLine("other", "") }

InitMeta ==
  /\ PipeIdle
  /\ TocIdle
  /\ FlacIdle
  /\ meta_log \in UNION { [1..n -> LogLineChoices] : n \in 0..MaxLogLen }
  /\ parsed = <<>>
  /\ tag_defs = <<>>
  /\ tag_args = <<>>
  /\ bag = [title |-> <<>>, episode |-> <<>>]
  /\ safe_name = <<>>

\* streams = parse_metadata(log)
ParseMetadata ==
  /\ parsed = <<>>
  /\ parsed' = <<parse_metadata(meta_log)>>
  /\ UNCHANGED << pipeVars, tocVars, flacVars, meta_log, tag_defs, tag_args,
                  bag, safe_name >>

NextMeta == ParseMetadata

SpecMeta == InitMeta /\ [][NextMeta]_vars

\* The lines of the log that match one of the two shapes, in log order.
MatchingLines == SelectSeq(meta_log, LAMBDA l : l.shape \in {"audio", "subtitle"})

CountShape(shape) ==
  Cardinality({ j \in 1..Len(meta_log) : meta_log[j].shape = shape })

TableCodes ==
  { "ar", "cy", "de", "en", "es", "fa", "fr", "ga", "he", "ja", "ko", "pt",
    "ru", "zh", "unknown" }

TableValues ==
  { "ara", "cym", "ger", "eng", "spa", "fas", "fra", "gle", "heb", "jpn",
    "kor", "por", "rus", "chi" }

AllCodesKnown == \A j \in 1..Len(MatchingLines) : MatchingLines[j].lang \in TableCodes

\* C12: a log with k audio lines and m subtitle lines, all codes in the table,
\* gives exactly k+m descriptors, one per matching line, in line order, each
\* of the kind of its line.
C12_OneDescriptorPerMatchingLine ==
  (parsed # <<>> /\ AllCodesKnown) =>
    /\ parsed[1].ok
    /\ Len(parsed[1].streams) = CountShape("audio") + CountShape("subtitle")
    /\ \A j \in 1..Len(parsed[1].streams) :
         parsed[1].streams[j].type = MatchingLines[j].shape

C12_Witness ==
  /\ parsed # <<>>
  /\ AllCodesKnown
  /\ Len(meta_log) = 3
  /\ meta_log[1].shape = "subtitle"
  /\ meta_log[2].shape = "other"
  /\ meta_log[3].shape = "audio"
  /\ Len(parsed[1].streams) = 2

\* C13: a matching line with a code outside the table makes the whole
\* extraction fail, nothing being returned; otherwise every descriptor has a
\* code of the table's values, 'en' giving 'eng', 'fr' 'fra' and the sentinel
\* 'unknown' the default 'eng'.
C13_UnknownCodeFailsExtraction ==
  parsed # <<>> =>
    /\ parsed[1].ok <=> AllCodesKnown
    /\ ~parsed[1].ok => parsed[1].streams = <<>>
    /\ parsed[1].ok =>
         \A j \in 1..Len(parsed[1].streams) :
           /\ parsed[1].streams[j].language \in TableValues
           /\ MatchingLines[j].lang \in {"en", "unknown"} =>
                parsed[1].streams[j].language = "eng"
           /\ MatchingLines[j].lang = "fr" =>
                parsed[1].streams[j].language = "fra"

C13_Witness ==
  /\ parsed # <<>>
  /\ ~parsed[1].ok
  /\ Len(meta_log) = 2
  /\ meta_log[1] = LogLine("audio", "unknown")
  /\ meta_log[2] = LogLine("subtitle", "xx")

\* ======================================================= stream_language_tags

\* Longest descriptor list.
MaxDefs == 3

DescriptorChoices ==
  { Stream(t, l) : t \in {"audio", "subtitle"}, l \in {"eng", "fra"} }

InitTags ==
  /\ PipeIdle
  /\ TocIdle
  /\ FlacIdle
  /\ meta_log = <<>>
  /\ parsed = <<>>
  /\ tag_defs \in UNION { [1..n -> DescriptorChoices] : n \in 0..MaxDefs }
  /\ tag_args = <<>>
  /\ bag = [title |-> <<>>, episode |-> <<>>]
  /\ safe_name = <<>>

\* cmd.extend(stream_language_tags(streams))
TagStreams ==
  /\ tag_args = <<>>
  /\ tag_args' = <<stream_language_tags(tag_defs)>>
  /\ UNCHANGED << pipeVars, tocVars, flacVars, meta_log, parsed, tag_defs,
                  bag, safe_name >>

NextTags == TagStreams

SpecTags == InitTags /\ [][NextTags]_vars

\* C18: stream_language_tags emits one directive per descriptor, in order; the
\* directive of a descriptor carries its kind, its language, and as ordinal
\* the number of earlier descriptors of the same kind.
C18_KindRelativeOrdinals ==
  tag_args # <<>> =>
    /\ Len(tag_args[1]) = Len(tag_defs)
    /\ \A j \in 1..Len(tag_defs) :
         /\ tag_args[1][j].kind = tag_defs[j].type
         /\ tag_args[1][j].lang = tag_defs[j].language
         /\ tag_args[1][j].ord =
              Cardinality({ h \in 1..(j - 1) : tag_defs[h].type = tag_defs[j].type })

C18_Witness ==
  /\ tag_args # <<>>
  /\ Len(tag_defs) = 3
  /\ tag_defs[1].type = "audio"
  /\ tag_defs[2].type = "subtitle"
  /\ tag_defs[3].type = "audio"
  /\ tag_args[1][3].ord = 1

\* =================================================================== filesafe

\* Longest title, in characters.
MaxNameLen == 3

\* Characters of a title: an ordinary one, a deleted one, and two of the
\* characters written as path separators.
NameChars == { "a", "?", ":", "\\" }

InitSafe ==
  /\ PipeIdle
  /\ TocIdle
  /\ FlacIdle
  /\ meta_log = <<>>
  /\ parsed = <<>>
  /\ tag_defs = <<>>
  /\ tag_args = <<>>
  /\ \E t \in UNION { [1..n -> NameChars] : n \in 0..MaxNameLen } :
       \E e \in { <<>>, <<"1">> } :
         bag = [title |-> t, episode |-> e]
  /\ safe_name = <<>>

\* The first lines of re_mux: outfile from the metadata bag.
NameOutfile ==
  /\ safe_name = <<>>
  /\ safe_name' = <<OutFileName(bag.title, bag.episode)>>
  /\ UNCHANGED << pipeVars, tocVars, flacVars, meta_log, parsed, tag_defs,
                  tag_args, bag >>

NextSafe == NameOutfile

SpecSafe == InitSafe /\ [][NextSafe]_vars

\* '<episode id> <title>.mp4' or '<title>.mp4'
RawName ==
  IF bag.episode # <<>>
  THEN bag.episode \o <<" ">> \o bag.title \o <<".", "m", "p", "4">>
  ELSE bag.title \o <<".", "m", "p", "4">>

\* The sanitization the claim describes, character by character.
Sanitized(raw) ==
  LET kept == SelectSeq(raw, LAMBDA c :
                c \notin {"?", "*", "\"", "'", "!", "<", ">", "(", ")"})
  IN [j \in 1..Len(kept) |->
        IF kept[j] \in {":", "/", "\\", "#"} THEN "-" ELSE kept[j]]

\* C14: the output name is the sanitization of '<episode id> <title>.mp4' or
\* of '<title>.mp4': non-empty, without any of ? * " ' ! < > ( ) : / \ #, and
\* with a dash in the place of each : / \ #.
C14_SanitizedOutputName ==
  safe_name # <<>> =>
    /\ safe_name[1] # <<>>
    /\ Range(safe_name[1]) \cap
         {"?", "*", "\"", "'", "!", "<", ">", "(", ")", ":", "/", "\\", "#"} = {}
    /\ safe_name[1] = Sanitized(RawName)

\* ==================================================== flac-combine: outstream

\* Calls made on one outstream object.
MaxCalls == 6

CD_SAMPLES_PER_FRAME == 588

\* Lengths, in bytes, of the blocks passed to process_samples: a block that is
\* not a whole number of 4-byte frames, one frame, one CD frame of 4-byte
\* frames, and one read of 1024 4-byte frames.
DataLens == { 3, 4, 588 * 4, 1024 * 4 }

\* channels and sample width of the input files, as the set_ calls of the
\* main loop have stored them before the first start_track.
FormatChoices == { 1, 2 }

PadAmount_Remainder(pos) ==
  IF pos % CD_SAMPLES_PER_FRAME # 0 THEN pos % CD_SAMPLES_PER_FRAME ELSE 0

\* padding = CD_SAMPLES_PER_FRAME - (pos % CD_SAMPLES_PER_FRAME), when needed
PadAmount(pos) ==
  IF pos % CD_SAMPLES_PER_FRAME # 0
  THEN CD_SAMPLES_PER_FRAME - (pos % CD_SAMPLES_PER_FRAME)
  ELSE 0

\* pad_out_cd_frame on the current object: the counter and the bytes written
\* afterwards, the padding chosen, and the exception that ends it, if any.
\* The padding block goes through process_samples, which fails with
\* AttributeError on a missing pipe; the final assert fails with
\* AssertionError.
pad_out_cd_frame ==
  LET pos == total_samples
      padding == PadAmount(pos)
      nbytes == padding * bytes_per_sample * channels
  IN IF pos % CD_SAMPLES_PER_FRAME = 0
     THEN [total |-> pos, written |-> written, padding |-> 0, raised |-> ""]
     ELSE IF outpipe = "None"
     THEN [total |-> pos, written |-> written, padding |-> padding,
           raised |-> "AttributeError"]
     ELSE IF nbytes % (bytes_per_sample * channels) # 0
     THEN [total |-> pos, written |-> written + nbytes, padding |-> padding,
           raised |-> "FlacCombineError"]
     ELSE [total |-> pos + nbytes \div (bytes_per_sample * channels),
           written |-> written + nbytes, padding |-> padding,
           raised |-> IF (pos + nbytes \div (bytes_per_sample * channels))
                           % CD_SAMPLES_PER_FRAME = 0
                      THEN "" ELSE "AssertionError"]

InitFlac ==
  /\ PipeIdle
  /\ TocIdle
  /\ FnIdle
  /\ MainIdle
  /\ channels \in FormatChoices
  /\ bytes_per_sample \in FormatChoices
  /\ total_samples = 0
  /\ track_offsets = <<>>
  /\ outpipe = "None"
  /\ written = 0
  /\ raised = ""
  /\ last_call = ""
  /\ last_padding = 0
  /\ calls = 0

\* out.start_track()
StartTrack ==
  /\ calls < MaxCalls
  /\ LET r == pad_out_cd_frame IN
       /\ total_samples' = r.total
       /\ written' = r.written
       /\ last_padding' = r.padding
       /\ raised' = r.raised
       /\ track_offsets' = IF r.raised = "" THEN Append(track_offsets, r.total)
                           ELSE track_offsets
  /\ last_call' = "start_track"
  /\ calls' = calls + 1
  /\ UNCHANGED << pipeVars, tocVars, fnVars, mainVars, channels, bytes_per_sample, outpipe >>

\* out.init()
OpenPipe ==
  /\ calls < MaxCalls
  /\ outpipe' = "open"
  /\ raised' = ""
  /\ last_call' = "init"
  /\ calls' = calls + 1
  /\ UNCHANGED << pipeVars, tocVars, fnVars, mainVars, channels, bytes_per_sample,
                  total_samples, track_offsets, written, last_padding >>

\* out.process_samples(data), len(data) = n
ProcessSamples ==
  /\ calls < MaxCalls
  /\ \E n \in DataLens :
       IF outpipe = "None"
       THEN /\ raised' = "AttributeError"
            /\ UNCHANGED << written, total_samples >>
       ELSE /\ written' = written + n
            /\ IF n % (bytes_per_sample * channels) # 0
               THEN /\ raised' = "FlacCombineError"
                    /\ UNCHANGED total_samples
               ELSE /\ raised' = ""
                    /\ total_samples' =
                         total_samples + n \div (bytes_per_sample * channels)
  /\ last_call' = "process_samples"
  /\ calls' = calls + 1
  /\ UNCHANGED << pipeVars, tocVars, fnVars, mainVars, channels, bytes_per_sample,
                  track_offsets, outpipe, last_padding >>

\* out.finish(): pad, close the pipe, and write the cuesheet, whose loop
\* asserts the alignment of every offset.
FinishStream ==
  /\ calls < MaxCalls
  /\ LET r == pad_out_cd_frame IN
       /\ total_samples' = r.total
       /\ written' = r.written
       /\ last_padding' = r.padding
       /\ IF r.raised # ""
          THEN raised' = r.raised /\ UNCHANGED outpipe
          ELSE IF outpipe = "None"
          THEN raised' = "AttributeError" /\ UNCHANGED outpipe
          ELSE /\ outpipe' = "None"
               /\ raised' =
                    IF \E j \in 1..Len(track_offsets) :
                         track_offsets[j] % CD_SAMPLES_PER_FRAME # 0
                    THEN "AssertionError" ELSE ""
  /\ last_call' = "finish"
  /\ calls' = calls + 1
  /\ UNCHANGED << pipeVars, tocVars, fnVars, mainVars, channels, bytes_per_sample,
                  track_offsets >>

NextFlac ==
  \/ StartTrack
  \/ OpenPipe
  \/ ProcessSamples
  \/ FinishStream

SpecFlac == InitFlac /\ [][NextFlac]_vars

\* C19: every recorded track offset is a multiple of 588 samples, the offsets
\* are non-decreasing in track order, after a finish that returned the stream
\* length is a multiple of 588, the padding added at a boundary is fewer than
\* 588 samples, and no alignment assertion fails.
C19_TrackOffsetsAligned ==
  /\ \A j \in 1..Len(track_offsets) : track_offsets[j] % 588 = 0
  /\ \A j \in 1..Len(track_offsets) : \A k \in j..Len(track_offsets) :
       track_offsets[j] <= track_offsets[k]
  /\ (last_call = "finish" /\ raised = "") => total_samples % 588 = 0
  /\ last_padding >= 0 /\ last_padding < 588
  /\ raised # "AssertionError"

C19_Witness ==
  /\ Len(track_offsets) = 2
  /\ track_offsets[2] > track_offsets[1]
  /\ last_call = "finish"
  /\ raised = ""
  /\ last_padding > 0
  /\ total_samples > track_offsets[2]

\* C20: total_samples equals the audio written to the output pipe, bytes
\* written divided by bytes_per_sample*channels, after every process_samples
\* call, a rejected block having changed neither.
C20_CounterMatchesOutput ==
  last_call = "process_samples" =>
    written = total_samples * bytes_per_sample * channels

\* ===================================================== flac-combine: __main__

\* Longest track list, in names.
MaxTracks == 3

\* bufsize of the main loop, in frames
WavBufsize == 1024

\* A name of the track list: whether it ends with 'wav', and for a wav file
\* its channels, its sample width and its length in frames (an empty file, a
\* file of one frame, a file of more than one read).
FileChoices ==
  { [wav |-> FALSE, ch |-> 0, width |-> 0, nframes |-> 0] } \cup
  { [wav |-> TRUE, ch |-> c, width |-> 2, nframes |-> f] :
      c \in {1, 2}, f \in {0, 1, 1500} }

InitMain ==
  /\ PipeIdle
  /\ TocIdle
  /\ FnIdle
  /\ tracklist \in UNION { [1..n -> FileChoices] : n \in 0..MaxTracks }
  /\ infile = 1
  /\ mpc = "loop"
  /\ remaining = 0
  /\ channels = 0
  /\ bytes_per_sample = 0
  /\ total_samples = 0
  /\ track_offsets = <<>>
  /\ outpipe = "None"
  /\ written = 0
  /\ raised = ""
  /\ last_call = ""
  /\ last_padding = 0
  /\ calls = 0

\* 'skipping: name ends with not wav'
MainSkip ==
  /\ mpc = "loop"
  /\ infile <= Len(tracklist)
  /\ ~tracklist[infile].wav
  /\ infile' = infile + 1
  /\ UNCHANGED << pipeVars, tocVars, fnVars, tracklist, mpc, remaining,
                  channels, bytes_per_sample, total_samples, track_offsets,
                  outpipe, written, raised, last_call, last_padding, calls >>

\* wave.open(infile, 'r') and the set_ calls: a value is stored when the
\* field is None or equal, and FlacCombineError is raised otherwise.
MainSetFormat ==
  /\ mpc = "loop"
  /\ infile <= Len(tracklist)
  /\ tracklist[infile].wav
  /\ LET f == tracklist[infile]
         chOk == channels = 0 \/ channels = f.ch
         widthOk == bytes_per_sample = 0 \/ bytes_per_sample = f.width
     IN /\ channels' = IF chOk THEN f.ch ELSE channels
        /\ bytes_per_sample' =
             IF chOk /\ widthOk THEN f.width ELSE bytes_per_sample
        /\ raised' = IF chOk /\ widthOk THEN "" ELSE "FlacCombineError"
        /\ mpc' = IF chOk /\ widthOk THEN "start_track" ELSE "crashed"
        /\ remaining' = f.nframes
  /\ last_call' = "set_format"
  /\ UNCHANGED << pipeVars, tocVars, fnVars, tracklist, infile, total_samples,
                  track_offsets, outpipe, written, last_padding, calls >>

\* out.start_track() of the main loop
MainStartTrack ==
  /\ mpc = "start_track"
  /\ LET r == pad_out_cd_frame IN
       /\ total_samples' = r.total
       /\ written' = r.written
       /\ last_padding' = r.padding
       /\ raised' = r.raised
       /\ track_offsets' = IF r.raised = "" THEN Append(track_offsets, r.total)
                           ELSE track_offsets
       /\ mpc' = IF r.raised = "" THEN "init" ELSE "crashed"
  /\ last_call' = "start_track"
  /\ UNCHANGED << pipeVars, tocVars, fnVars, tracklist, infile, remaining,
                  channels, bytes_per_sample, outpipe, calls >>

\* out.init() of the main loop
MainInit ==
  /\ mpc = "init"
  /\ outpipe' = "open"
  /\ raised' = ""
  /\ last_call' = "init"
  /\ mpc' = "read"
  /\ UNCHANGED << pipeVars, tocVars, fnVars, tracklist, infile, remaining,
                  channels, bytes_per_sample, total_samples, track_offsets,
                  written, last_padding, calls >>

\* data = wav.readframes(bufsize) is not empty: out.process_samples(data)
MainProcess ==
  /\ mpc = "read"
  /\ remaining > 0
  /\ LET frames == IF remaining < WavBufsize THEN remaining ELSE WavBufsize
         n == frames * bytes_per_sample * channels
     IN /\ remaining' = remaining - frames
        /\ IF outpipe = "None"
           THEN /\ raised' = "AttributeError"
                /\ mpc' = "crashed"
                /\ UNCHANGED << written, total_samples >>
           ELSE /\ written' = written + n
                /\ IF n % (bytes_per_sample * channels) # 0
                   THEN /\ raised' = "FlacCombineError"
                        /\ mpc' = "crashed"
                        /\ UNCHANGED total_samples
                   ELSE /\ raised' = ""
                        /\ mpc' = "read"
                        /\ total_samples' =
                             total_samples + n \div (bytes_per_sample * channels)
  /\ last_call' = "process_samples"
  /\ UNCHANGED << pipeVars, tocVars, fnVars, tracklist, infile, channels,
                  bytes_per_sample, track_offsets, outpipe, last_padding, calls >>

\* data is empty: wav.close() and the next name
MainEndOfFile ==
  /\ mpc = "read"
  /\ remaining = 0
  /\ infile' = infile + 1
  /\ mpc' = "loop"
  /\ UNCHANGED << pipeVars, tocVars, fnVars, tracklist, remaining, channels,
                  bytes_per_sample, total_samples, track_offsets, outpipe,
                  written, raised, last_call, last_padding, calls >>

\* The for loop is exhausted: out.finish()
MainFinish ==
  /\ mpc = "loop"
  /\ infile > Len(tracklist)
  /\ LET r == pad_out_cd_frame IN
       /\ total_samples' = r.total
       /\ written' = r.written
       /\ last_padding' = r.padding
       /\ IF r.raised # ""
          THEN raised' = r.raised /\ mpc' = "crashed" /\ UNCHANGED outpipe
          ELSE IF outpipe = "None"
          THEN raised' = "AttributeError" /\ mpc' = "crashed" /\ UNCHANGED outpipe
          ELSE /\ outpipe' = "None"
               /\ raised' =
                    IF \E j \in 1..Len(track_offsets) :
                         track_offsets[j] % CD_SAMPLES_PER_FRAME # 0
                    THEN "AssertionError" ELSE ""
               /\ mpc' =
                    IF \E j \in 1..Len(track_offsets) :
                         track_offsets[j] % CD_SAMPLES_PER_FRAME # 0
                    THEN "crashed" ELSE "done"
  /\ last_call' = "finish"
  /\ UNCHANGED << pipeVars, tocVars, fnVars, tracklist, infile, remaining,
                  channels, bytes_per_sample, track_offsets, calls >>

NextMain ==
  \/ MainSkip
  \/ MainSetFormat
  \/ MainStartTrack
  \/ MainInit
  \/ MainProcess
  \/ MainEndOfFile
  \/ MainFinish

SpecMain == InitMain /\ [][NextMain]_vars

\* C21: in the main loop, for every track list, no write and no close is made
\* on a missing pipe: the pipe is open after every process_samples call, every
\* byte written went to an opened pipe, and a finish call closes a pipe that
\* was opened and returns.
C21_PipeOpenWhenUsed ==
  /\ raised # "AttributeError"
  /\ last_call = "process_samples" => outpipe = "open"
  /\ written > 0 => track_offsets # <<>>
  /\ last_call = "finish" => (raised = "" /\ mpc = "done" /\ track_offsets # <<>>)

====
